---- MODULE Spec2Model ----
(***************************************************************************)
(* Model of makedeb_srcinfo.SrcinfoParser: the constructor that parses a   *)
(* SRCINFO document into the mapping _srcinfo_data and validates it, and   *)
(* the query methods of a constructed parser.                              *)
(*                                                                         *)
(* A Python str is a sequence of one-character strings.  None is the empty *)
(* tuple and a present optional value s is the one-element tuple <<s>>, so *)
(* that None and the empty string stay distinct.                           *)
(***************************************************************************)
EXTENDS Integers, Sequences, FiniteSets, TLC

\* ------------------------------------------------------------------------
\* Bounds of the checked inputs
\* ------------------------------------------------------------------------
MaxBody == 3
MaxReqBody == 1
MaxExtBody == 2
MaxDepLen == 4

\* ------------------------------------------------------------------------
\* Python str operations used by the module
\* ------------------------------------------------------------------------
None == <<>>

Some(s) == <<s>>

\* Positions at which sub occurs in s.
occurrences(s, sub) ==
    {i \in 1..(Len(s) + 1) :
        /\ i + Len(sub) - 1 <= Len(s)
        /\ SubSeq(s, i, i + Len(sub) - 1) = sub}

\* str.find, 1-based, 0 when sub does not occur.
find(s, sub) ==
    LET occ == occurrences(s, sub)
    IN  IF occ = {} THEN 0 ELSE CHOOSE i \in occ : \A j \in occ : i <= j

\* The Python expression `sub in s`.
contains(s, sub) == find(s, sub) # 0

\* str.split(sep) for a non-empty sep: cut at the leftmost occurrence and
\* go on in the remainder (non-overlapping occurrences, left to right).
RECURSIVE split(_, _)
split(s, sep) ==
    LET i == find(s, sep)
    IN  IF i = 0
        THEN <<s>>
        ELSE <<SubSeq(s, 1, i - 1)>> \o split(SubSeq(s, i + Len(sep), Len(s)), sep)

\* sep.join(parts)
RECURSIVE join(_, _)
join(sep, parts) ==
    IF parts = <<>> THEN <<>>
    ELSE IF Len(parts) = 1 THEN parts[1]
    ELSE parts[1] \o sep \o join(sep, Tail(parts))

\* str.lstrip(ch) and str.rstrip(ch) for a one-character argument.
RECURSIVE lstrip(_, _)
lstrip(s, ch) ==
    IF s # <<>> /\ Head(s) = ch THEN lstrip(Tail(s), ch) ELSE s

RECURSIVE rstrip(_, _)
rstrip(s, ch) ==
    IF s # <<>> /\ s[Len(s)] = ch THEN rstrip(SubSeq(s, 1, Len(s) - 1), ch) ELSE s

startswith(s, p) == Len(p) <= Len(s) /\ SubSeq(s, 1, Len(p)) = p

endswith(s, p) == Len(p) <= Len(s) /\ SubSeq(s, Len(s) - Len(p) + 1, Len(s)) = p

\* str.splitlines(): the line boundaries "\n", "\r" and "\r\n" are modelled;
\* a boundary at the very end of the text opens no further line.
RECURSIVE splitlines(_)
splitlines(s) ==
    LET brk == {i \in 1..Len(s) : s[i] \in {"\n", "\r"}}
    IN  IF s = <<>> THEN <<>>
        ELSE IF brk = {} THEN <<s>>
        ELSE LET i == CHOOSE b \in brk : \A c \in brk : b <= c
                 n == IF s[i] = "\r" /\ i < Len(s) /\ s[i + 1] = "\n" THEN 2 ELSE 1
             IN  <<SubSeq(s, 1, i - 1)>> \o splitlines(SubSeq(s, i + n, Len(s)))

\* Elements of a tuple, and membership in a tuple (`x in tup`).
Range(t) == {t[i] : i \in 1..Len(t)}

\* ------------------------------------------------------------------------
\* Key names and the class-level taxonomy (lines 14-56)
\* ------------------------------------------------------------------------
pkgbase == <<"p","k","g","b","a","s","e">>
pkgdesc == <<"p","k","g","d","e","s","c">>
pkgver == <<"p","k","g","v","e","r">>
pkgrel == <<"p","k","g","r","e","l">>
epoch == <<"e","p","o","c","h">>
url == <<"u","r","l">>
pkgname == <<"p","k","g","n","a","m","e">>
arch == <<"a","r","c","h">>
license == <<"l","i","c","e","n","s","e">>
preinst == <<"p","r","e","i","n","s","t">>
postinst == <<"p","o","s","t","i","n","s","t">>
prerm == <<"p","r","e","r","m">>
postrm == <<"p","o","s","t","r","m">>
depends == <<"d","e","p","e","n","d","s">>
makedepends == <<"m","a","k","e">> \o depends
checkdepends == <<"c","h","e","c","k">> \o depends
optdepends == <<"o","p","t">> \o depends
conflicts == <<"c","o","n","f","l","i","c","t","s">>
provides == <<"p","r","o","v","i","d","e","s">>
replaces == <<"r","e","p","l","a","c","e","s">>
source == <<"s","o","u","r","c","e">>
control_fields == <<"c","o","n","t","r","o","l","_","f","i","e","l","d","s">>

\* Faulty variant of the scalar list: pkgver left out.
strings_without_pkgver == <<pkgbase, pkgdesc, pkgrel, epoch, url>>

strings == <<pkgbase, pkgdesc, pkgver, pkgrel, epoch, url>>

arrays == <<pkgname, arch, license>>

extended_strings == <<preinst, postinst, prerm, postrm>>

extended_arrays ==
    <<depends, makedepends, checkdepends, optdepends, conflicts, provides,
      replaces, source, control_fields>>

\* Faulty variant of _extended: the extended scalars left out.
extended_arrays_only == extended_arrays

extended == extended_strings \o extended_arrays

\* Faulty variant of the required list: arch left out.
required_without_arch == <<pkgbase, pkgname, pkgver, pkgrel>>

required == <<pkgbase, pkgname, pkgver, pkgrel, arch>>

\* The " = " separator of line 77 and line 84.
delimiter == <<" ", "=", " ">>

\* ------------------------------------------------------------------------
\* Input documents
\* ------------------------------------------------------------------------
kv(k, v) == k \o delimiter \o v

focal == <<"f","o","c","a","l">>
amd64 == <<"a","m","d","6","4">>
focal_depends == focal \o <<"_">> \o depends
depends_amd64 == depends \o <<"_">> \o amd64
focal_depends_amd64 == focal \o <<"_">> \o depends \o <<"_">> \o amd64
focal_preinst == focal \o <<"_">> \o preinst

\* The text whose lines are ls.
RECURSIVE JoinLines(_)
JoinLines(ls) ==
    IF ls = <<>> THEN <<>>
    ELSE IF Len(ls) = 1 THEN ls[1]
    ELSE ls[1] \o <<"\n">> \o JoinLines(Tail(ls))

SeqsUpTo(S, n) == UNION {[1..k -> S] : k \in 0..n}

\* The elements of seq at the positions in S, in order.
RECURSIVE Keep(_, _, _)
Keep(seq, S, i) ==
    IF i > Len(seq) THEN <<>>
    ELSE (IF i \in S THEN <<seq[i]>> ELSE <<>>) \o Keep(seq, S, i + 1)

\* A minimal document holding every required key once.
Header ==
    <<kv(pkgbase, <<"b">>), kv(pkgname, <<"n">>), kv(pkgver, <<"1">>),
      kv(pkgrel, <<"1">>), kv(arch, <<"x">>)>>

\* Lines appended to the header: blank, tabs only, no delimiter ("x =y"),
\* a list key twice (once tab-indented), a repeated scalar, a value holding
\* the delimiter, an empty key, and a qualified extended scalar.
BodyLines ==
    { <<>>,
      <<"\t", "\t">>,
      <<"x", " ", "=", "y">>,
      kv(depends, <<"a">>),
      <<"\t">> \o kv(depends, <<"b">>),
      kv(pkgver, <<"2">>),
      kv(url, <<"a">> \o delimiter \o <<"b">>),
      kv(<<>>, <<"v">>),
      kv(focal_preinst, <<"p">>) }

ReqBodyLines == { <<>>, <<"b", "a", "d">>, kv(pkgver, <<"2">>) }

ExtHeader ==
    Header \o
    <<kv(depends, <<"a">>), kv(focal_depends, <<"f">>),
      kv(depends_amd64, <<"d">>), kv(focal_depends_amd64, <<"g">>)>>

ExtBodyLines ==
    { kv(makedepends, <<"m">>),
      kv(depends, <<"e">>),
      kv(optdepends \o <<"_">> \o amd64, <<"o">>),
      kv(focal_depends_amd64, <<"a">>) }

Documents ==
    {JoinLines(Header \o b) : b \in SeqsUpTo(BodyLines, MaxBody)}
    \cup {JoinLines(Keep(Header, S, 1) \o b) :
            S \in SUBSET (1..Len(Header)), b \in SeqsUpTo(ReqBodyLines, MaxReqBody)}
    \cup {JoinLines(ExtHeader \o b) : b \in SeqsUpTo(ExtBodyLines, MaxExtBody)}

\* ------------------------------------------------------------------------
\* State
\* ------------------------------------------------------------------------
VARIABLES
    srcinfo_content,  \* the constructor's argument (when it is a str)
    is_str,           \* whether the argument is a str
    lines,            \* srcinfo_content.splitlines()
    line_number,      \* index of the line the loop of line 66 is at
    srcinfo_data,     \* self._srcinfo_data: key -> tuple of values
    pc,               \* position in __init__, "done" once it has returned
    error,            \* the exception __init__ raised
    result            \* outcome of the last query on the constructed parser

vars ==
    <<srcinfo_content, is_str, lines, line_number, srcinfo_data, pc, error, result>>

EmptyDict == [k \in {} |-> <<>>]

NoError == [type |-> "none", reason |-> "none", line |-> -1, key |-> <<>>]

NoResult == [op |-> "none", arg |-> <<>>, kind |-> "none", val |-> <<>>]

InitWith(docs) ==
    /\ \/ is_str = TRUE /\ srcinfo_content \in docs
       \/ is_str = FALSE /\ srcinfo_content = <<>>
    /\ lines = <<>>
    /\ line_number = 0
    /\ srcinfo_data = EmptyDict
    /\ pc = "init"
    /\ error = NoError
    /\ result = NoResult

Init == InitWith(Documents)

\* ------------------------------------------------------------------------
\* __init__ (lines 58-108)
\* ------------------------------------------------------------------------
type_error == [type |-> "TypeError", reason |-> "not_str", line |-> -1, key |-> <<>>]

\* Faulty variant of the delimiter error: the line cited 1-based.
delimiter_error_one_based(n) ==
    [type |-> "ParsingError", reason |-> "delimiter", line |-> n + 1, key |-> <<>>]

\* f"Line {line_number}: Couldn't find ' = ' delimiter."
delimiter_error(n) ==
    [type |-> "ParsingError", reason |-> "delimiter", line |-> n, key |-> <<>>]

\* f"Couldn't find required '{key}' variable."
required_error(key) ==
    [type |-> "ParsingError", reason |-> "required", line |-> -1, key |-> key]

\* f"Variable '{key}' appeared more than once when it is not allowed to."
repeated_error(key) ==
    [type |-> "ParsingError", reason |-> "repeated", line |-> -1, key |-> key]

strip_tabs(line) == lstrip(line, "\t")

line_key(parts) == parts[1]

\* Faulty variant of line 84: only the part after the first delimiter kept.
line_value_second_part(parts) == parts[2]

line_value(parts) == join(delimiter, Tail(parts))

\* Faulty variant of lines 86-89: a later value replaces the earlier ones.
store_overwrite(d, key, value) == (key :> <<value>>) @@ d

\* Lines 86-89: start the key's list or append to it.
store(d, key, value) ==
    IF key \notin DOMAIN d
    THEN (key :> <<value>>) @@ d
    ELSE [d EXCEPT ![key] = @ \o <<value>>]

\* Lines 59-64.
Begin ==
    /\ pc = "init"
    /\ IF ~is_str
       THEN /\ pc' = "failed"
            /\ error' = type_error
            /\ UNCHANGED <<lines, srcinfo_data>>
       ELSE /\ pc' = "loop"
            /\ srcinfo_data' = EmptyDict
            /\ lines' = splitlines(srcinfo_content)
            /\ UNCHANGED error
    /\ UNCHANGED <<srcinfo_content, is_str, line_number, result>>

\* One iteration of the loop of lines 66-89.
ReadLine ==
    /\ pc = "loop"
    /\ line_number < Len(lines)
    /\ LET line == strip_tabs(lines[line_number + 1])
           parts == split(line, delimiter)
       IN  IF line = <<>>
           THEN /\ line_number' = line_number + 1
                /\ UNCHANGED <<srcinfo_data, pc, error>>
           ELSE IF Len(parts) = 1
           THEN /\ pc' = "failed"
                /\ error' = delimiter_error(line_number)
                /\ UNCHANGED <<srcinfo_data, line_number>>
           ELSE /\ srcinfo_data' = store(srcinfo_data, line_key(parts), line_value(parts))
                /\ line_number' = line_number + 1
                /\ UNCHANGED <<pc, error>>
    /\ UNCHANGED <<srcinfo_content, is_str, lines, result>>

\* The first of the positions a for loop stops at, 0 when it stops at none.
first_index(hits) ==
    IF hits = {} THEN 0 ELSE CHOOSE i \in hits : \A j \in hits : i <= j

\* Lines 91-94, entered when the loop over the lines is exhausted.
CheckRequired ==
    /\ pc = "loop"
    /\ line_number = Len(lines)
    /\ LET absent(key) == key \notin DOMAIN srcinfo_data
           i == first_index({j \in 1..Len(required) : absent(required[j])})
       IN  IF i # 0
           THEN pc' = "failed" /\ error' = required_error(required[i])
           ELSE pc' = "strings" /\ UNCHANGED error
    /\ UNCHANGED <<srcinfo_content, is_str, lines, line_number, srcinfo_data, result>>

\* Lines 96-101.
CheckStrings ==
    /\ pc = "strings"
    /\ LET repeated(key) == key \in DOMAIN srcinfo_data /\ Len(srcinfo_data[key]) # 1
           i == first_index({j \in 1..Len(strings) : repeated(strings[j])})
       IN  IF i # 0
           THEN pc' = "failed" /\ error' = repeated_error(strings[i])
           ELSE pc' = "extended" /\ UNCHANGED error
    /\ UNCHANGED <<srcinfo_content, is_str, lines, line_number, srcinfo_data, result>>

\* Lines 110-120: a TypeError for a name outside _extended, else the keys
\* of _srcinfo_data that contain the name.  tuple(set(matches)) has no
\* defined order, so the value is the set of the matches.
get_variable_with_extensions(variable) ==
    IF variable \notin Range(extended)
    THEN [kind |-> "TypeError", val |-> {}]
    ELSE [kind |-> "ok", val |-> {key \in DOMAIN srcinfo_data : contains(key, variable)}]

\* Lines 103-108.  The base names are visited in order; the keys of one base
\* are visited in the order of a set, so any of its repeated keys can be the
\* first one met.
CheckExtendedStrings ==
    /\ pc = "extended"
    /\ LET bad(base_key) ==
               {key \in get_variable_with_extensions(base_key).val :
                    Len(srcinfo_data[key]) # 1}
           rejected(base_key) == bad(base_key) # {}
           i == first_index({j \in 1..Len(extended_strings) : rejected(extended_strings[j])})
       IN  IF i # 0
           THEN \E key \in bad(extended_strings[i]) :
                    pc' = "failed" /\ error' = repeated_error(key)
           ELSE pc' = "done" /\ UNCHANGED error
    /\ UNCHANGED <<srcinfo_content, is_str, lines, line_number, srcinfo_data, result>>

\* ------------------------------------------------------------------------
\* Queries on a constructed parser (lines 110-194)
\* ------------------------------------------------------------------------
\* Lines 122-128: tuple(self._srcinfo_data.get(variable, ())).
get_variable(variable) ==
    IF variable \in DOMAIN srcinfo_data THEN srcinfo_data[variable] ELSE <<>>

\* Faulty variant of get_variable: an absent key is entered in the mapping
\* (dict.setdefault in place of dict.get).
GetVariable_setdefault(variable) ==
    /\ pc = "done"
    /\ result' = [op |-> "get_variable", arg |-> variable, kind |-> "ok",
                  val |-> IF variable \in DOMAIN srcinfo_data
                          THEN srcinfo_data[variable] ELSE <<>>]
    /\ srcinfo_data' = IF variable \in DOMAIN srcinfo_data
                       THEN srcinfo_data
                       ELSE (variable :> <<>>) @@ srcinfo_data
    /\ UNCHANGED <<srcinfo_content, is_str, lines, line_number, pc, error>>

GetVariable(variable) ==
    /\ pc = "done"
    /\ result' = [op |-> "get_variable", arg |-> variable, kind |-> "ok",
                  val |-> get_variable(variable)]
    /\ UNCHANGED <<srcinfo_content, is_str, lines, line_number, srcinfo_data, pc, error>>

GetVariableWithExtensions(variable) ==
    /\ pc = "done"
    /\ LET r == get_variable_with_extensions(variable)
       IN  result' = [op |-> "get_variable_with_extensions", arg |-> variable,
                      kind |-> r.kind, val |-> r.val]
    /\ UNCHANGED <<srcinfo_content, is_str, lines, line_number, srcinfo_data, pc, error>>

\* Lines 148-157: the loop over the fragments around the base name; a later
\* fragment of the same kind replaces an earlier one.
RECURSIVE scan_parts(_, _, _)
scan_parts(parts, distro, arch_) ==
    IF parts = <<>> THEN <<distro, arch_>>
    ELSE LET part == Head(parts)
         IN  IF endswith(part, <<"_">>)
             THEN scan_parts(Tail(parts), Some(rstrip(part, "_")), arch_)
             ELSE IF startswith(part, <<"_">>)
             THEN scan_parts(Tail(parts), distro, Some(lstrip(part, "_")))
             ELSE scan_parts(Tail(parts), distro, arch_)

\* The (distro, arch) pair of one matching key.
qualifiers(match, variable) == scan_parts(split(match, variable), None, None)

\* Lines 144-161 for the matches taken in the given order: an entry written
\* later replaces an entry of the same pair.
RECURSIVE returned_matches(_, _, _)
returned_matches(order, variable, acc) ==
    IF order = <<>> THEN acc
    ELSE returned_matches(
             Tail(order), variable,
             (qualifiers(Head(order), variable) :> get_variable(Head(order))) @@ acc)

\* The orders in which the elements of a set can be iterated.
RECURSIVE Orders(_)
Orders(S) ==
    IF S = {} THEN {<<>>}
    ELSE UNION {{<<x>> \o o : o \in Orders(S \ {x})} : x \in S}

GetExtendedVariable(variable) ==
    /\ pc = "done"
    /\ LET r == get_variable_with_extensions(variable)
       IN  IF r.kind # "ok"
           THEN result' = [op |-> "get_extended_variable", arg |-> variable,
                           kind |-> r.kind, val |-> EmptyDict]
           ELSE \E order \in Orders(r.val) :
                    result' = [op |-> "get_extended_variable", arg |-> variable,
                               kind |-> "ok",
                               val |-> returned_matches(order, variable, EmptyDict)]
    /\ UNCHANGED <<srcinfo_content, is_str, lines, line_number, srcinfo_data, pc, error>>

\* Python truth value of an optional str: None and "" are false.
truthy(o) == o # None /\ o[1] # <<>>

\* Lines 163-171.
construct_extended_variable_name(distro, var, arch_) ==
    IF truthy(distro) /\ truthy(arch_)
    THEN distro[1] \o <<"_">> \o var \o <<"_">> \o arch_[1]
    ELSE IF truthy(distro) THEN distro[1] \o <<"_">> \o var
    ELSE IF truthy(arch_) THEN var \o <<"_">> \o arch_[1]
    ELSE var

ConstructExtendedVariableName(distro, var, arch_) ==
    /\ pc = "done"
    /\ result' = [op |-> "construct_extended_variable_name",
                  arg |-> <<distro, var, arch_>>, kind |-> "ok",
                  val |-> construct_extended_variable_name(distro, var, arch_)]
    /\ UNCHANGED <<srcinfo_content, is_str, lines, line_number, srcinfo_data, pc, error>>

\* Lines 173-178.
split_dep_description(dep) ==
    LET parts == split(dep, <<":", " ">>)
    IN  <<parts[1], join(<<":", " ">>, Tail(parts))>>

SplitDepDescription(dep) ==
    /\ pc = "done"
    /\ result' = [op |-> "split_dep_description", arg |-> dep, kind |-> "ok",
                  val |-> split_dep_description(dep)]
    /\ UNCHANGED <<srcinfo_content, is_str, lines, line_number, srcinfo_data, pc, error>>

\* Line 181.
conditions == << <<"<", "=">>, <<">", "=">>, <<"=">>, <<"<">>, <<">">> >>

\* Lines 180-194.  `dep, version = dep.split(found_condition)` unpacks into
\* exactly two names: any other number of parts raises ValueError.
split_dep_condition(dep) ==
    LET occurs(condition) == contains(dep, condition)
        i == first_index({j \in 1..Len(conditions) : occurs(conditions[j])})
    IN  IF i = 0
        THEN [kind |-> "ok", val |-> <<dep, None, None>>]
        ELSE LET found_condition == conditions[i]
                 parts == split(dep, found_condition)
             IN  IF Len(parts) # 2
                 THEN [kind |-> "ValueError", val |-> <<>>]
                 ELSE [kind |-> "ok",
                       val |-> <<parts[1], Some(found_condition), Some(parts[2])>>]

SplitDepCondition(dep) ==
    /\ pc = "done"
    /\ LET r == split_dep_condition(dep)
       IN  result' = [op |-> "split_dep_condition", arg |-> dep,
                      kind |-> r.kind, val |-> r.val]
    /\ UNCHANGED <<srcinfo_content, is_str, lines, line_number, srcinfo_data, pc, error>>

\* ------------------------------------------------------------------------
\* Arguments of the queries
\* ------------------------------------------------------------------------
depend == <<"d","e","p","e","n","d">>

\* Every extended name, and names outside the extended taxonomy: a plain
\* scalar, a plain list, a proper prefix of an extended name, a qualified
\* key and the empty string.
QueryNames ==
    {preinst, postinst, prerm, postrm, depends, makedepends, checkdepends,
     optdepends, conflicts, provides, replaces, source, control_fields,
     pkgver, pkgname, depend, focal_depends, <<>>}

LookupNames == DOMAIN srcinfo_data \cup {depends, license, <<>>}

Qualifiers == {None, Some(<<>>), Some(focal)}

SampleDeps ==
    { <<"a">>, <<"a", ">", "=", "1">>, <<"a", "=", "1", "=", "2">>,
      <<"a", ":", " ", "b">>, <<"a", ":", " ", "b", ":", " ", "c">> }

StringsUpTo(alphabet, n) == SeqsUpTo(alphabet, n)

DepTexts == StringsUpTo({"a", "<", ">", "="}, MaxDepLen)

DescTexts == StringsUpTo({"a", ":", " "}, MaxDepLen)

\* ------------------------------------------------------------------------
\* Specifications
\* ------------------------------------------------------------------------
Next ==
    \/ Begin
    \/ ReadLine
    \/ CheckRequired
    \/ CheckStrings
    \/ CheckExtendedStrings
    \/ \E variable \in LookupNames : GetVariable(variable)
    \/ \E variable \in QueryNames : GetVariableWithExtensions(variable)
    \/ \E variable \in QueryNames : GetExtendedVariable(variable)
    \/ \E distro \in Qualifiers, arch_ \in {None, Some(amd64)} :
           ConstructExtendedVariableName(distro, depends, arch_)
    \/ \E dep \in SampleDeps : SplitDepDescription(dep)
    \/ \E dep \in SampleDeps : SplitDepCondition(dep)

Spec == Init /\ [][Next]_vars

\* The two dependency-string helpers on every short text.
InitDep == InitWith({JoinLines(Header), JoinLines(ExtHeader)})

NextDep ==
    \/ Begin
    \/ ReadLine
    \/ CheckRequired
    \/ CheckStrings
    \/ CheckExtendedStrings
    \/ \E dep \in DescTexts : SplitDepDescription(dep)
    \/ \E dep \in DepTexts : SplitDepCondition(dep)

SpecDep == InitDep /\ [][NextDep]_vars

\* ------------------------------------------------------------------------
\* The document as the properties read it, stated on the characters of the
\* lines and not through the parser's own operators
\* ------------------------------------------------------------------------
Min(S) == CHOOSE x \in S : \A y \in S : x <= y

\* The line without its leading tabs.
Unindented(l) ==
    LET rest == {i \in 1..Len(l) : l[i] # "\t"}
    IN  IF rest = {} THEN <<>> ELSE SubSeq(l, Min(rest), Len(l))

SepAt(l, p) ==
    /\ p + 2 <= Len(l)
    /\ l[p] = " "
    /\ l[p + 1] = "="
    /\ l[p + 2] = " "

HasSep(l) == \E p \in 1..Len(l) : SepAt(l, p)

FirstSep(l) == Min({p \in 1..Len(l) : SepAt(l, p)})

KeyOf(l) == SubSeq(l, 1, FirstSep(l) - 1)

ValueOf(l) == SubSeq(l, FirstSep(l) + 3, Len(l))

Entry(i) == Unindented(lines[i])

IsBlank(i) == Entry(i) = <<>>

IsEntry(i) == HasSep(Entry(i))

\* The lines that are neither blank nor hold the separator.
BadLines == {i \in 1..Len(lines) : ~IsBlank(i) /\ ~IsEntry(i)}

DocHasKey(k) == \E i \in 1..Len(lines) : IsEntry(i) /\ KeyOf(Entry(i)) = k

\* The values of the lines from position i on whose key is k, in line order.
RECURSIVE ValuesFrom(_, _)
ValuesFrom(k, i) ==
    IF i > Len(lines) THEN <<>>
    ELSE (IF IsEntry(i) /\ KeyOf(Entry(i)) = k THEN <<ValueOf(Entry(i))>> ELSE <<>>)
         \o ValuesFrom(k, i + 1)

Occurs(sub, s) == \E p \in 1..Len(s) : p + Len(sub) - 1 <= Len(s) /\ SubSeq(s, p, p + Len(sub) - 1) = sub

RequiredOrder == <<pkgbase, pkgname, pkgver, pkgrel, arch>>

ScalarOrder == <<pkgbase, pkgdesc, pkgver, pkgrel, epoch, url>>

ExtScalarOrder == <<preinst, postinst, prerm, postrm>>

ExtendedNames ==
    {preinst, postinst, prerm, postrm, depends, makedepends, checkdepends,
     optdepends, conflicts, provides, replaces, source, control_fields}

MissingRequired == {i \in 1..Len(RequiredOrder) : ~DocHasKey(RequiredOrder[i])}

\* __init__ has returned or raised on a str argument.
Finished == is_str /\ pc \in {"done", "failed"}

IsParsingError == pc = "failed" /\ error.type = "ParsingError"

\* ------------------------------------------------------------------------
\* Properties
\* ------------------------------------------------------------------------

\* C1: every line the loop has stored (non-blank after stripping the leading
\* tabs, holding " = ") is recorded under the text before its FIRST " = ",
\* with all the text after that first " = " as the value, so that
\* key + " = " + value is the tab-stripped line.
C1_FirstDelimiterSplits ==
    pc # "init" =>
        \A i \in 1..line_number :
            IsEntry(i) =>
                LET l == Entry(i)
                    k == KeyOf(l)
                    v == ValueOf(l)
                    n == Cardinality({j \in 1..i : IsEntry(j) /\ KeyOf(Entry(j)) = k})
                IN  /\ k \in DOMAIN srcinfo_data
                    /\ Len(srcinfo_data[k]) >= n
                    /\ srcinfo_data[k][n] = v
                    /\ k \o <<" ", "=", " ">> \o v = l

\* A constructed parser whose document has a line with " = " inside the value.
C1_Witness ==
    /\ pc = "done"
    /\ \E i \in 1..Len(lines) : IsEntry(i) /\ HasSep(ValueOf(Entry(i)))

\* C2 as stated: every missing required key is named by the ParsingError.
C2_EveryMissingKeyNamed ==
    \A i \in 1..Len(RequiredOrder) :
        (Finished /\ ~DocHasKey(RequiredOrder[i])) =>
            /\ IsParsingError
            /\ error.reason = "required"
            /\ error.key = RequiredOrder[i]

\* C2, amended: a document missing a required key fails with a ParsingError,
\* and when no line lacks the delimiter that error names the first missing
\* key in the order pkgbase, pkgname, pkgver, pkgrel, arch.
C2_FirstMissingKeyNamed ==
    (Finished /\ MissingRequired # {}) =>
        /\ IsParsingError
        /\ BadLines = {} =>
               /\ error.reason = "required"
               /\ error.key = RequiredOrder[Min(MissingRequired)]

\* Two required keys are missing and the error names the first of them.
C2_Witness ==
    /\ Finished
    /\ Cardinality(MissingRequired) >= 2
    /\ error.reason = "required"
    /\ error.key = pkgname

SingleValued(k) ==
    \/ k \in Range(ScalarOrder)
    \/ \E i \in 1..Len(ExtScalarOrder) : Occurs(ExtScalarOrder[i], k)

\* The single-valued keys that have accumulated more than one value.
Repeated == {k \in DOMAIN srcinfo_data : SingleValued(k) /\ Len(srcinfo_data[k]) > 1}

RepeatedScalars == {i \in 1..Len(ScalarOrder) : ScalarOrder[i] \in Repeated}

RepeatedBases ==
    {i \in 1..Len(ExtScalarOrder) : \E k \in Repeated : Occurs(ExtScalarOrder[i], k)}

\* C3 as stated: every repeated single-valued key is named by the
\* ParsingError, and no document without one is rejected for repetition.
C3_EveryRepeatedKeyNamed ==
    Finished =>
        /\ \A k \in Repeated :
               /\ IsParsingError
               /\ error.reason = "repeated"
               /\ error.key = k
        /\ Repeated = {} => error.reason # "repeated"

\* C3, amended: a repeated single-valued key makes construction fail with a
\* ParsingError; when no line lacks the delimiter and no required key is
\* missing, it is the repetition error and names one repeated single-valued
\* key: the first repeated plain scalar in taxonomy order, else a repeated
\* key of the first extended-scalar base that has one.  A document without a
\* repeated single-valued key is never rejected for repetition.
C3_SomeRepeatedKeyNamed ==
    Finished =>
        /\ Repeated # {} =>
               /\ IsParsingError
               /\ (BadLines = {} /\ MissingRequired = {}) =>
                      /\ error.reason = "repeated"
                      /\ error.key \in Repeated
                      /\ RepeatedScalars # {} =>
                             error.key = ScalarOrder[Min(RepeatedScalars)]
                      /\ RepeatedScalars = {} =>
                             Occurs(ExtScalarOrder[Min(RepeatedBases)], error.key)
        /\ Repeated = {} => error.reason # "repeated"

\* A qualified extended-scalar key appeared twice and is the key named.
C3_Witness ==
    /\ Finished
    /\ error.reason = "repeated"
    /\ error.key = focal_preinst
    /\ Len(srcinfo_data[focal_preinst]) > 1

\* C4: a document with a non-blank line lacking " = " fails with the
\* ParsingError of the delimiter, citing the 0-based index (blank lines
\* counted) of the first such line, whatever required keys are missing or
\* single-valued keys repeated.
C4_MissingDelimiterCitesLine ==
    (Finished /\ BadLines # {}) =>
        /\ IsParsingError
        /\ error.reason = "delimiter"
        /\ error.line = Min(BadLines) - 1

\* Two lines lack the delimiter and a blank line precedes the first of them.
C4_Witness ==
    /\ Finished
    /\ error.reason = "delimiter"
    /\ Cardinality(BadLines) >= 2
    /\ \E j \in 1..Min(BadLines) : IsBlank(j)

\* C5: on a constructed parser get_variable(k) is the tuple of the values of
\* the lines whose key is k, in line order, duplicates kept, empty when k
\* never appeared; blank lines add nothing.
C5_GetVariableInLineOrder ==
    (pc = "done" /\ result.op = "get_variable") =>
        /\ result.kind = "ok"
        /\ result.val = ValuesFrom(result.arg, 1)

\* depends appears twice with different values around a blank line, and
\* construction succeeded.
C5_Witness ==
    /\ pc = "done"
    /\ result.op = "get_variable"
    /\ result.arg = depends
    /\ Len(result.val) >= 2
    /\ result.val[1] # result.val[2]
    /\ \E i \in 1..Len(lines) : IsBlank(i)

FourKeys == {depends, focal_depends, depends_amd64, focal_depends_amd64}

\* C6: with depends, focal_depends, depends_amd64 and focal_depends_amd64
\* all present with distinct values, get_extended_variable("depends") maps
\* each of the four qualifier pairs to the values of its own key.
C6_FourPairsOwnValues ==
    ( /\ pc = "done"
      /\ result.op = "get_extended_variable"
      /\ result.arg = depends
      /\ FourKeys \subseteq DOMAIN srcinfo_data
      /\ \A k1, k2 \in FourKeys : k1 # k2 => srcinfo_data[k1] # srcinfo_data[k2] )
    =>
        /\ result.kind = "ok"
        /\ {<<None, None>>, <<Some(focal), None>>, <<None, Some(amd64)>>,
            <<Some(focal), Some(amd64)>>} \subseteq DOMAIN result.val
        /\ result.val[<<None, None>>] = srcinfo_data[depends]
        /\ result.val[<<Some(focal), None>>] = srcinfo_data[focal_depends]
        /\ result.val[<<None, Some(amd64)>>] = srcinfo_data[depends_amd64]
        /\ result.val[<<Some(focal), Some(amd64)>>] = srcinfo_data[focal_depends_amd64]

Operators == << <<"<", "=">>, <<">", "=">>, <<"=">>, <<"<">>, <<">">> >>

\* C8: split_dep_condition(text) returns (text, None, None) when no operator
\* occurs in text, else (name, op, version) with op the first operator in
\* the order <=, >=, =, <, > that occurs in text and name + op + version
\* equal to text.
C8_SplitDepConditionTriple ==
    result.op = "split_dep_condition" =>
        LET text == result.arg
            present == {i \in 1..Len(Operators) : Occurs(Operators[i], text)}
        IN  /\ result.kind = "ok"
            /\ Len(result.val) = 3
            /\ present = {} => result.val = <<text, None, None>>
            /\ present # {} =>
                   /\ result.val[2] = Some(Operators[Min(present)])
                   /\ result.val[3] # None
                   /\ result.val[1] \o Operators[Min(present)] \o result.val[3][1] = text

\* C9: after a successful construction no key of the mapping is the empty
\* string.
C9_KeysNonEmpty ==
    pc = "done" => \A k \in DOMAIN srcinfo_data : k # <<>>

\* C10: once construction has succeeded, no step changes the mapping (its
\* keys and each key's values) and the parser stays constructed.
C10_MappingFrozen ==
    [][pc = "done" => (srcinfo_data' = srcinfo_data /\ pc' = "done")]_vars

\* A query has failed with the contract error on a constructed parser.
C10_Witness ==
    /\ pc = "done"
    /\ result.kind = "TypeError"
    /\ DOMAIN srcinfo_data # {}

====
